---------------------------- MODULE Spec2Model ----------------------------
(***************************************************************************)
(* A model of backtalk's dispatch layer and streaming reply bridge.        *)
(*                                                                         *)
(*   - Adapter::handle (src/src/adapter.rs) routes a Request to one of the *)
(*     five adapter operations and turns the operation's result into a     *)
(*     Reply or an Error.                                                  *)
(*   - Reply::new_streamed / Reply::to_http / Body::poll                   *)
(*     (src/src/reply.rs) bridge a producer-side Sender and a pull-based   *)
(*     Body over an unbounded mpsc queue.                                  *)
(*                                                                         *)
(* The specifications share the variables: Spec drives the dispatcher,     *)
(* StreamSpec the streaming bridge, FairStreamSpec the bridge with a       *)
(* consumer that keeps pulling, FaultSpec the bridge over a queue whose    *)
(* poll may fail, and ReplySpec replies of both kinds (Value and Stream).  *)
(***************************************************************************)
EXTENDS Naturals, Sequences, FiniteSets

VARIABLES
  req,        \* the Request handed to Adapter::handle
  pc,         \* position of handle's future: "idle", "awaiting", "done"
  calls,      \* the adapter operations invoked so far, in order
  opResult,   \* what the invoked operation's future resolved with
  outcome,    \* what handle's future resolved with
  senders,    \* Sender handle -> "unborn" | "alive" | "dropped"
  sent,       \* Sender handle -> the chunks it has sent, in send order
  lastSend,   \* what the latest send reported to its producer
  queue,      \* the mpsc queue: chunks enqueued and not yet received
  closed,     \* the channel's receiving end is gone
  discarded,  \* the chunks whose send found the receiving end gone
  reply,      \* the streamed Reply, until converted or discarded
  body,       \* the Body of the http response, once converted
  headers,    \* the headers of the http response
  yielded,    \* the chunks Body::poll has returned, in order
  lastPoll    \* the result of the latest Body::poll

hvars == <<req, pc, calls, opResult, outcome>>
svars == <<senders, sent, lastSend, queue, closed, discarded, reply, body, headers,
           yielded, lastPoll>>
vars == <<req, pc, calls, opResult, outcome,
          senders, sent, lastSend, queue, closed, discarded, reply, body, headers,
          yielded, lastPoll>>

---------------------------------------------------------------------------
(* JSON values.  An object is an ordered sequence of key/value members.   *)

Member(k, v) == [k |-> k, v |-> v]

EmptyObject == <<>>

\* The objects requests carry and adapters return.
Objects == { EmptyObject, <<Member("x", 1)>> }

\* A JsonValue is a string or an object.
JStr(s) == [t |-> "string", s |-> s, o |-> EmptyObject]
JObj(o) == [t |-> "object", s |-> "", o |-> o]

---------------------------------------------------------------------------
(* Method and Request (src/src/request.rs).                               *)

Unit(tag) == [tag |-> tag, name |-> ""]
Action(name) == [tag |-> "Action", name |-> name]

ActionNames == {"archive", "publish"}

Method ==
  { Unit(t) : t \in {"List", "Get", "Delete", "Post", "Patch", "Listen"} }
    \cup { Action(n) : n \in ActionNames }

\* Option<String>: None is <<>>, Some(id) is <<id>>.
None == <<>>
Some(v) == <<v>>
Ids == {"12", "7"}
OptionIds == {None} \cup { Some(i) : i \in Ids }

RequestNew(resource, method, id, data, params) ==
  [resource |-> resource, method |-> method, id |-> id,
   data |-> data, params |-> params]

Requests ==
  { RequestNew("resource", m, i, d, p) :
      m \in Method, i \in OptionIds, d \in Objects, p \in Objects }

---------------------------------------------------------------------------
(* Error and Reply values.                                                 *)

ErrorKind == {"BadRequest", "ServerError", "NotFound"}

ErrorNew(kind, val) == [tag |-> "Error", kind |-> kind, detail |-> val]
ErrorBadRequest(msg) == ErrorNew("BadRequest", JStr(msg))
ErrorServerError(msg) == ErrorNew("ServerError", JStr(msg))

\* ReplyData::Value
Value(val) == [tag |-> "Value", val |-> val]

ReplyNew(code, r, data) ==
  [tag |-> "Reply", code |-> code, req |-> r, data |-> Value(data)]

\* The status codes a Value reply may carry.
StatusCodes == {200, 201}

MakeReply(r, val, code) == ReplyNew(code, Some(r), val)

IntoReply(r, val, code) == MakeReply(r, val, code)

NoOutcome == [tag |-> "None"]

---------------------------------------------------------------------------
(* The Adapter trait (src/src/adapter.rs).                                 *)

\* One invocation of an adapter operation with the arguments it was given;
\* an argument the operation does not take is None.
Call(op, id, data, params) ==
  [op |-> op, id |-> id, data |-> data, params |-> params]

\* What an operation's future resolves with.
Ok(val) == [tag |-> "Ok", val |-> val]
Err(kind, val) == [tag |-> "Err", kind |-> kind, val |-> val]

Details == { JStr("boom"), JObj(<<Member("error", 1)>>) }

OpResults ==
  { Ok(d) : d \in Objects } \cup { Err(k, v) : k \in ErrorKind, v \in Details }

NoResult == [tag |-> "None"]

\* The match arms of handle that invoke an operation; None when no such
\* arm matches.
RouteCallActionPosts(r) ==
  IF r.method.tag = "List" THEN Some(Call("list", None, None, r.params))
  ELSE IF r.method.tag = "Post" THEN Some(Call("post", None, Some(r.data), r.params))
  ELSE IF r.method.tag = "Get" /\ r.id # None
    THEN Some(Call("get", r.id, None, r.params))
  ELSE IF r.method.tag = "Delete" /\ r.id # None
    THEN Some(Call("delete", r.id, None, r.params))
  ELSE IF r.method.tag = "Patch" /\ r.id # None
    THEN Some(Call("patch", r.id, Some(r.data), r.params))
  ELSE IF r.method.tag = "Action" /\ r.id # None
    THEN Some(Call("post", None, Some(r.data), r.params))
  ELSE None

RouteCallPatchDropsBody(r) ==
  IF r.method.tag = "List" THEN Some(Call("list", None, None, r.params))
  ELSE IF r.method.tag = "Post" THEN Some(Call("post", None, Some(r.data), r.params))
  ELSE IF r.method.tag = "Get" /\ r.id # None
    THEN Some(Call("get", r.id, None, r.params))
  ELSE IF r.method.tag = "Delete" /\ r.id # None
    THEN Some(Call("delete", r.id, None, r.params))
  ELSE IF r.method.tag = "Patch" /\ r.id # None
    THEN Some(Call("patch", r.id, Some(EmptyObject), r.params))
  ELSE None

RouteCall(r) ==
  IF r.method.tag = "List" THEN Some(Call("list", None, None, r.params))
  ELSE IF r.method.tag = "Post" THEN Some(Call("post", None, Some(r.data), r.params))
  ELSE IF r.method.tag = "Get" /\ r.id # None
    THEN Some(Call("get", r.id, None, r.params))
  ELSE IF r.method.tag = "Delete" /\ r.id # None
    THEN Some(Call("delete", r.id, None, r.params))
  ELSE IF r.method.tag = "Patch" /\ r.id # None
    THEN Some(Call("patch", r.id, Some(r.data), r.params))
  ELSE None

\* The match arms of handle that return early, tried in source order once
\* no invoking arm has matched.
RouteFailActionFirst(r) ==
  IF r.method.tag = "Action"
    THEN ErrorServerError("passed action request to database adapter")
  ELSE IF r.id = None THEN ErrorBadRequest("missing id in request")
  ELSE ErrorServerError("passed listen request to database adapter")

RouteFailActionBadRequest(r) ==
  IF r.id = None THEN ErrorBadRequest("missing id in request")
  ELSE IF r.method.tag = "Listen"
    THEN ErrorServerError("passed listen request to database adapter")
  ELSE ErrorBadRequest("passed action request to database adapter")

RouteFail(r) ==
  IF r.id = None THEN ErrorBadRequest("missing id in request")
  ELSE IF r.method.tag = "Listen"
    THEN ErrorServerError("passed listen request to database adapter")
  ELSE ErrorServerError("passed action request to database adapter")

\* The closure handle chains onto the operation's future.
ThenEchoesBody(r, res, code) ==
  IF res.tag = "Ok" THEN IntoReply(r, r.data, code)
  ELSE ErrorNew(res.kind, res.val)

ThenMasksKind(r, res, code) ==
  IF res.tag = "Ok" THEN IntoReply(r, res.val, code)
  ELSE ErrorNew("ServerError", res.val)

Then(r, res, code) ==
  IF res.tag = "Ok" THEN IntoReply(r, res.val, code)
  ELSE ErrorNew(res.kind, res.val)

---------------------------------------------------------------------------
(* The dispatcher's steps.                                                 *)

\* The chained future is given a default outcome before the operation has
\* resolved.
HandleDefaultsOutcome ==
  /\ pc = "idle"
  /\ IF RouteCall(req) # None
       THEN /\ calls' = Append(calls, RouteCall(req)[1])
            /\ pc' = "awaiting"
            /\ outcome' = ErrorServerError("timed out")
       ELSE /\ calls' = calls
            /\ pc' = "done"
            /\ outcome' = RouteFail(req)
  /\ UNCHANGED <<req, opResult>>
  /\ UNCHANGED svars

\* handle, up to the point where it returns its future: either an early
\* return with an error, or one operation invoked and its future chained.
Handle ==
  /\ pc = "idle"
  /\ IF RouteCall(req) # None
       THEN /\ calls' = Append(calls, RouteCall(req)[1])
            /\ pc' = "awaiting"
            /\ outcome' = outcome
       ELSE /\ calls' = calls
            /\ pc' = "done"
            /\ outcome' = RouteFail(req)
  /\ UNCHANGED <<req, opResult>>
  /\ UNCHANGED svars

\* A failed operation is invoked again instead of being reported.
ResolveRetries(res) ==
  /\ pc = "awaiting"
  /\ opResult' = res
  /\ IF res.tag = "Err" /\ Len(calls) < 2
       THEN /\ calls' = Append(calls, calls[1])
            /\ UNCHANGED <<pc, outcome>>
       ELSE /\ \E code \in StatusCodes : outcome' = Then(req, res, code)
            /\ pc' = "done"
            /\ calls' = calls
  /\ UNCHANGED req
  /\ UNCHANGED svars

\* The invoked operation's future resolves with res and the chained
\* closure maps it to handle's outcome.
Resolve(res) ==
  /\ pc = "awaiting"
  /\ opResult' = res
  /\ \E code \in StatusCodes : outcome' = Then(req, res, code)
  /\ pc' = "done"
  /\ UNCHANGED <<req, calls>>
  /\ UNCHANGED svars

---------------------------------------------------------------------------
(* The streaming bridge (src/src/reply.rs).                                *)

\* How many Sender handles (the original and its clones) may exist.
NumSenders == 2
\* How many chunks are sent in all.
MaxSent == 3

Senders == 1 .. NumSenders
Chunks == {"A", "B"}

\* A queued chunk, with the handle that sent it.
Item(s, c) == [from |-> s, chunk |-> c]

\* ReplyData::Stream: the receiving end of the queue.
StreamData == [tag |-> "Stream"]

NoReply == [tag |-> "None"]
NoBody == [tag |-> "None"]
Gone == [tag |-> "Dropped"]

\* Body::Stream(receiver)
BodyStream == [tag |-> "Stream"]

\* Body::Once(chunk)
BodyOnce(opt) == [tag |-> "Once", opt |-> opt]

\* The headers of an http::Response; Response::new() sets none.
NoHeaders == [contentLength |-> None, contentType |-> None]
WithContentLength(h, n) == [h EXCEPT !.contentLength = Some(n)]
WithContentType(h, mime) == [h EXCEPT !.contentType = Some(mime)]

\* Mime(Text, EventStream, [(Charset, Utf8)])
EventStream == "text/event-stream; charset=utf-8"

\* futures::Poll<Option<Chunk>, E>
Ready(opt) == [ok |-> TRUE, tag |-> "Ready", item |-> opt]
NotReady == [ok |-> TRUE, tag |-> "NotReady", item |-> None]
PollErr(e) == [ok |-> FALSE, tag |-> e, item |-> None]
NoPoll == [ok |-> TRUE, tag |-> "None", item |-> None]

AnyAlive(ss) == \E s \in DOMAIN ss : ss[s] = "alive"

\* UnboundedSender::send on the channel made by mpsc::unbounded(): the
\* item is enqueued unless the receiving end is gone.
ChanSendIgnoresClose(q, isClosed, item) ==
  [queue |-> Append(q, item), res |-> "Ok"]

\* The queue holds two items at most and refuses the rest.
ChanSendBounded(q, isClosed, item) ==
  IF isClosed \/ Len(q) >= 2 THEN [queue |-> q, res |-> "SendError"]
  ELSE [queue |-> Append(q, item), res |-> "Ok"]

ChanSend(q, isClosed, item) ==
  IF isClosed THEN [queue |-> q, res |-> "SendError"]
  ELSE [queue |-> Append(q, item), res |-> "Ok"]

\* UnboundedReceiver::poll: the oldest queued item; end of stream once the
\* queue is empty and every sending handle is gone; not ready otherwise.
ChanPollTakesNewest(q, ss) ==
  IF q # <<>>
    THEN [res |-> Ready(Some(q[Len(q)])), queue |-> SubSeq(q, 1, Len(q) - 1)]
  ELSE IF ~AnyAlive(ss) THEN [res |-> Ready(None), queue |-> q]
  ELSE [res |-> NotReady, queue |-> q]

\* The stream never ends: an empty queue is always reported as not ready.
ChanPollNeverEnds(q, ss) ==
  IF q # <<>> THEN [res |-> Ready(Some(Head(q))), queue |-> Tail(q)]
  ELSE [res |-> NotReady, queue |-> q]

\* The stream ends as soon as one sending handle is gone.
ChanPollEndsOnFirstDrop(q, ss) ==
  IF q # <<>> THEN [res |-> Ready(Some(Head(q))), queue |-> Tail(q)]
  ELSE IF \E s \in DOMAIN ss : ss[s] = "dropped"
    THEN [res |-> Ready(None), queue |-> q]
  ELSE [res |-> NotReady, queue |-> q]

ChanPoll(q, ss) ==
  IF q # <<>> THEN [res |-> Ready(Some(Head(q))), queue |-> Tail(q)]
  ELSE IF ~AnyAlive(ss) THEN [res |-> Ready(None), queue |-> q]
  ELSE [res |-> NotReady, queue |-> q]

\* The failure the queue's poll may report: Err(()).
ChanErr == PollErr("unit")

\* Body::poll's match on what the queue's poll returned.
MapPollEndsOnError(p) ==
  IF p.res.ok THEN p
  ELSE [res |-> Ready(None), queue |-> p.queue]

MapPoll(p) ==
  IF p.res.ok THEN p
  ELSE [res |-> PollErr("Incomplete"), queue |-> p.queue]

\* Body::poll on Body::Stream.
BodyPollEndsWhenEmpty(q, ss) ==
  IF q # <<>> THEN [res |-> Ready(Some(Head(q))), queue |-> Tail(q)]
  ELSE [res |-> Ready(None), queue |-> q]

BodyPoll(q, ss) == MapPoll(ChanPoll(q, ss))

\* Sender::send: the chunk is handed to the channel; a channel whose
\* receiving end is gone makes the send a no-op.
SenderSend(q, isClosed, item) ==
  [queue |-> ChanSend(q, isClosed, item).queue, res |-> "ok"]

RECURSIVE SumLen(_, _)
SumLen(f, S) ==
  IF S = {} THEN 0
  ELSE LET s == CHOOSE x \in S : TRUE
       IN  Len(f[s]) + SumLen(f, S \ {s})

\* The number of chunks sent so far, over all handles.
SentCount == SumLen(sent, Senders)

\* Reply::new_streamed: the channel, its first Sender and the Reply that
\* holds the receiving end.
NewStreamed(code) ==
  /\ reply = NoReply
  /\ body = NoBody
  /\ reply' = [tag |-> "Reply", code |-> code, req |-> Some(req),
               data |-> StreamData]
  /\ senders' = [s \in Senders |-> IF s = 1 THEN "alive" ELSE "unborn"]
  /\ queue' = <<>>
  /\ closed' = FALSE
  /\ UNCHANGED <<sent, lastSend, discarded, body, yielded, lastPoll>>
  /\ UNCHANGED headers
  /\ UNCHANGED hvars

\* One producer sends one chunk through its handle.
Send(s, c) ==
  /\ senders[s] = "alive"
  /\ SentCount < MaxSent
  /\ LET r == SenderSend(queue, closed, Item(s, c))
     IN  /\ queue' = r.queue
         /\ lastSend' = r.res
         /\ discarded' = IF r.queue = queue
                            THEN Append(discarded, Item(s, c))
                            ELSE discarded
  /\ sent' = [sent EXCEPT ![s] = Append(@, c)]
  /\ UNCHANGED <<senders, closed, reply, body, yielded, lastPoll>>
  /\ UNCHANGED headers
  /\ UNCHANGED hvars

\* Sender::clone: another handle on the same queue.
Clone(s, t) ==
  /\ senders[s] = "alive"
  /\ senders[t] = "unborn"
  /\ senders' = [senders EXCEPT ![t] = "alive"]
  /\ UNCHANGED <<sent, lastSend, queue, closed, discarded, reply, body, yielded, lastPoll>>
  /\ UNCHANGED headers
  /\ UNCHANGED hvars

\* A producer drops its handle.
DropSender(s) ==
  /\ senders[s] = "alive"
  /\ senders' = [senders EXCEPT ![s] = "dropped"]
  /\ UNCHANGED <<sent, lastSend, queue, closed, discarded, reply, body, yielded, lastPoll>>
  /\ UNCHANGED headers
  /\ UNCHANGED hvars

\* The Body is given the receiving end of a fresh queue.
ToHttpFreshQueue ==
  /\ reply.tag = "Reply"
  /\ reply.data = StreamData
  /\ body' = BodyStream
  /\ reply' = [tag |-> "Moved"]
  /\ queue' = <<>>
  /\ UNCHANGED <<senders, sent, lastSend, closed, discarded, yielded, lastPoll>>
  /\ headers' = WithContentType(NoHeaders, EventStream)
  /\ UNCHANGED hvars

\* Reply::to_http on a streamed Reply: the receiving end moves into
\* Body::Stream.
ToHttp ==
  /\ reply.tag = "Reply"
  /\ reply.data = StreamData
  /\ body' = BodyStream
  /\ reply' = [tag |-> "Moved"]
  /\ UNCHANGED <<senders, sent, lastSend, queue, closed, discarded, yielded, lastPoll>>
  /\ headers' = WithContentType(NoHeaders, EventStream)
  /\ UNCHANGED hvars

\* The transport writer pulls the Body once.
Poll ==
  /\ body = BodyStream
  /\ LET p == BodyPoll(queue, senders)
     IN  /\ lastPoll' = p.res
         /\ queue' = p.queue
         /\ yielded' = IF p.res.ok /\ p.res.tag = "Ready" /\ p.res.item # None
                         THEN Append(yielded, p.res.item[1])
                         ELSE yielded
  /\ UNCHANGED <<senders, sent, lastSend, closed, discarded, reply, body>>
  /\ UNCHANGED headers
  /\ UNCHANGED hvars

\* The transport writer pulls the Body and the queue's poll reports a
\* failure.
PollFault ==
  /\ body = BodyStream
  /\ LET p == MapPoll([res |-> ChanErr, queue |-> queue])
     IN  /\ lastPoll' = p.res
         /\ queue' = p.queue
         /\ yielded' = IF p.res.ok /\ p.res.tag = "Ready" /\ p.res.item # None
                         THEN Append(yielded, p.res.item[1])
                         ELSE yielded
  /\ UNCHANGED <<senders, sent, lastSend, closed, discarded, reply, body>>
  /\ UNCHANGED headers
  /\ UNCHANGED hvars

\* The Reply is discarded before conversion: its receiving end is dropped,
\* which closes the channel and discards what is still queued.
DropReply ==
  /\ reply.tag = "Reply"
  /\ reply.data = StreamData
  /\ reply' = Gone
  /\ closed' = TRUE
  /\ queue' = <<>>
  /\ UNCHANGED <<senders, sent, lastSend, discarded, body, yielded, lastPoll>>
  /\ UNCHANGED headers
  /\ UNCHANGED hvars

\* The Body is discarded: its receiving end is dropped likewise.
DropBody ==
  /\ body = BodyStream
  /\ body' = Gone
  /\ closed' = TRUE
  /\ queue' = <<>>
  /\ UNCHANGED <<senders, sent, lastSend, discarded, reply, yielded, lastPoll>>
  /\ UNCHANGED headers
  /\ UNCHANGED hvars

---------------------------------------------------------------------------
(* Value replies on the wire (src/src/reply.rs).  Text is a sequence of    *)
(* Unicode code points; a Rust String holds its UTF-8 bytes.               *)

\* The documents a Value reply carries: keys are given as text, values are
\* numbers.
WireDocs ==
  { EmptyObject,
    <<Member(<<120>>, 1)>>,
    <<Member(<<233>>, 12)>>,
    <<Member(<<97, 34>>, 0), Member(<<120>>, 1)>> }

RECURSIVE Digits(_)
Digits(n) ==
  IF n < 10 THEN <<48 + n>>
  ELSE Digits(n \div 10) \o <<48 + (n % 10)>>

EscapeChar(ch) ==
  IF ch = 34 THEN <<92, 34>>
  ELSE IF ch = 92 THEN <<92, 92>>
  ELSE IF ch = 10 THEN <<92, 110>>
  ELSE <<ch>>

RECURSIVE Escape(_)
Escape(t) == IF t = <<>> THEN <<>> ELSE EscapeChar(Head(t)) \o Escape(Tail(t))

Quote(t) == <<34>> \o Escape(t) \o <<34>>

MemberToString(m) == Quote(m.k) \o <<58>> \o Digits(m.v)

RECURSIVE MembersToString(_)
MembersToString(ms) ==
  IF ms = <<>> THEN <<>>
  ELSE IF Len(ms) = 1 THEN MemberToString(ms[1])
  ELSE MemberToString(ms[1]) \o <<44>> \o MembersToString(Tail(ms))

\* val.to_string(): the compact JSON text of the document.
ToString(obj) == <<123>> \o MembersToString(obj) \o <<125>>

Utf8Char(cp) ==
  IF cp < 128 THEN <<cp>>
  ELSE IF cp < 2048 THEN <<192 + (cp \div 64), 128 + (cp % 64)>>
  ELSE <<224 + (cp \div 4096), 128 + ((cp \div 64) % 64), 128 + (cp % 64)>>

RECURSIVE Utf8(_)
Utf8(t) == IF t = <<>> THEN <<>> ELSE Utf8Char(Head(t)) \o Utf8(Tail(t))

\* String::len(): the length in bytes.
StrLenCountsChars(t) == Len(t)

StrLen(t) == Len(Utf8(t))

\* resp_str.into(): the chunk holding the string's bytes.
IntoChunk(t) == Item(0, Utf8(t))

\* Body::poll on Body::Once: Ready(opt.take()).
BodyPollOnceSkips(opt) == [res |-> Ready(None), opt |-> None]

BodyPollOnceKeeps(opt) == [res |-> Ready(opt), opt |-> opt]

BodyPollOnce(opt) == [res |-> Ready(opt), opt |-> None]

\* Reply::new: a Value reply.
NewValue(code, r, data) ==
  /\ reply = NoReply
  /\ body = NoBody
  /\ reply' = ReplyNew(code, r, data)
  /\ UNCHANGED <<senders, sent, lastSend, queue, closed, discarded, body, headers,
                 yielded, lastPoll>>
  /\ UNCHANGED hvars

\* Reply::to_http on a Value reply: the document is serialized, its byte
\* length becomes the content length and its bytes the one chunk of
\* Body::Once.
ToHttpValue ==
  /\ reply.tag = "Reply"
  /\ reply.data.tag = "Value"
  /\ LET resp_str == ToString(reply.data.val)
     IN  /\ headers' = WithContentLength(NoHeaders, StrLen(resp_str))
         /\ body' = BodyOnce(Some(IntoChunk(resp_str)))
  /\ reply' = [tag |-> "Moved"]
  /\ UNCHANGED <<senders, sent, lastSend, queue, closed, discarded, yielded, lastPoll>>
  /\ UNCHANGED hvars

\* The transport writer pulls a Body::Once.
PollOnce ==
  /\ body.tag = "Once"
  /\ LET p == BodyPollOnce(body.opt)
     IN  /\ lastPoll' = p.res
         /\ body' = BodyOnce(p.opt)
         /\ yielded' = IF p.res.item # None
                         THEN Append(yielded, p.res.item[1])
                         ELSE yielded
  /\ UNCHANGED <<senders, sent, lastSend, queue, closed, discarded, reply, headers>>
  /\ UNCHANGED hvars

---------------------------------------------------------------------------
(* Specification of the dispatcher.                                        *)

StreamIdle ==
  /\ senders = [s \in Senders |-> "unborn"]
  /\ sent = [s \in Senders |-> <<>>]
  /\ lastSend = "none"
  /\ queue = <<>>
  /\ closed = FALSE
  /\ discarded = <<>>
  /\ reply = NoReply
  /\ body = NoBody
  /\ headers = NoHeaders
  /\ yielded = <<>>
  /\ lastPoll = NoPoll

Init ==
  /\ req \in Requests
  /\ pc = "idle"
  /\ calls = <<>>
  /\ opResult = NoResult
  /\ outcome = NoOutcome
  /\ StreamIdle

Next ==
  \/ Handle
  \/ \E res \in OpResults : Resolve(res)

Spec == Init /\ [][Next]_vars

---------------------------------------------------------------------------
(* Specification of the streaming bridge.                                  *)

ListenRequest ==
  RequestNew("resource", Unit("Listen"), None, EmptyObject, EmptyObject)

StreamInit ==
  /\ req = ListenRequest
  /\ pc = "idle"
  /\ calls = <<>>
  /\ opResult = NoResult
  /\ outcome = NoOutcome
  /\ StreamIdle

StreamNext ==
  \/ \E code \in StatusCodes : NewStreamed(code)
  \/ \E s \in Senders, c \in Chunks : Send(s, c)
  \/ \E s \in Senders, t \in Senders : Clone(s, t)
  \/ \E s \in Senders : DropSender(s)
  \/ ToHttp
  \/ Poll
  \/ DropReply
  \/ DropBody

StreamSpec == StreamInit /\ [][StreamNext]_vars

\* The streaming bridge with a consumer that keeps pulling the Body: a pull
\* that would change the state is eventually made.
FairStreamSpec == StreamSpec /\ WF_vars(Poll)

\* The streaming bridge over a queue whose poll may report a failure.
FaultNext ==
  \/ StreamNext
  \/ PollFault

FaultSpec == StreamInit /\ [][FaultNext]_vars

\* Replies of both kinds, from construction to the Body being drained.
ReplyNext ==
  \/ StreamNext
  \/ \E code \in StatusCodes, r \in {None, Some(req)}, data \in WireDocs :
       NewValue(code, r, data)
  \/ ToHttpValue
  \/ PollOnce

ReplySpec == StreamInit /\ [][ReplyNext]_vars

---------------------------------------------------------------------------
(* Properties of the dispatcher, checked under Spec.                       *)

NeedsId(m) == m.tag \in {"Get", "Patch", "Delete", "Action"}

IsError(o, kind, msg) ==
  /\ o.tag = "Error"
  /\ o.kind = kind
  /\ o.detail = JStr(msg)

\* C1: a Get, Patch, Delete or Action(name) request without an identifier
\* fails with Error{BadRequest, "missing id in request"} and no adapter
\* operation is invoked.
C1_MissingIdRejected ==
  (NeedsId(req.method) /\ req.id = None) =>
    /\ calls = <<>>
    /\ pc # "awaiting"
    /\ pc = "done" => IsError(outcome, "BadRequest", "missing id in request")

C1_Witness ==
  /\ pc = "done"
  /\ req.method = Action("archive")
  /\ req.id = None
  /\ outcome.tag = "Error"

\* C2: a Listen request, with or without an identifier, fails with
\* Error{ServerError, "passed listen request to database adapter"}.
C2_ListenAlwaysServerError ==
  (req.method.tag = "Listen" /\ pc # "idle") =>
    /\ pc = "done"
    /\ IsError(outcome, "ServerError",
               "passed listen request to database adapter")

\* C3: a Listen or Action(name) request, whatever its identifier, never
\* invokes an adapter operation: the invocation count stays zero.
C3_ListenActionNeverInvoke ==
  (req.method.tag \in {"Listen", "Action"}) =>
    /\ Len(calls) = 0
    /\ pc # "awaiting"

C3_Witness ==
  /\ pc = "done"
  /\ req.method = Action("publish")
  /\ req.id = Some("12")
  /\ calls = <<>>

\* C4: handle routes by (verb, identifier presence) to exactly one
\* operation with the request's own id, body and params: List -> list(params)
\* and Post -> post(body, params) with or without an identifier,
\* (Get, id) -> get(id, params), (Delete, id) -> delete(id, params),
\* (Patch, id) -> patch(id, body, params).
C4_RoutesToOneOperation ==
  pc # "idle" =>
    /\ req.method.tag = "List" =>
         calls = << [op |-> "list", id |-> None, data |-> None,
                     params |-> req.params] >>
    /\ req.method.tag = "Post" =>
         calls = << [op |-> "post", id |-> None, data |-> Some(req.data),
                     params |-> req.params] >>
    /\ (req.method.tag = "Get" /\ req.id # None) =>
         calls = << [op |-> "get", id |-> req.id, data |-> None,
                     params |-> req.params] >>
    /\ (req.method.tag = "Delete" /\ req.id # None) =>
         calls = << [op |-> "delete", id |-> req.id, data |-> None,
                     params |-> req.params] >>
    /\ (req.method.tag = "Patch" /\ req.id # None) =>
         calls = << [op |-> "patch", id |-> req.id, data |-> Some(req.data),
                     params |-> req.params] >>

C4_Witness ==
  /\ pc = "awaiting"
  /\ req.method.tag = "Patch"
  /\ req.id = Some("12")
  /\ req.data = <<Member("x", 1)>>
  /\ req.params = EmptyObject
  /\ Len(calls) = 1
  /\ calls[1].op = "patch"

\* C5: when the routed operation resolves with Ok(document), handle
\* resolves with a Value Reply holding exactly that document and bound to
\* the originating Request.
C5_OkBecomesValueReply ==
  (pc = "done" /\ opResult.tag = "Ok") =>
    /\ outcome.tag = "Reply"
    /\ outcome.data.tag = "Value"
    /\ outcome.data.val = opResult.val
    /\ outcome.req = Some(req)

C5_Witness ==
  /\ pc = "done"
  /\ opResult.tag = "Ok"
  /\ opResult.val # req.data
  /\ outcome.tag = "Reply"

\* C6: when the routed operation resolves with Err((kind, detail)), handle
\* resolves with Error{kind, detail}: same kind, same detail, never a Reply.
C6_ErrPropagatedUnchanged ==
  (pc = "done" /\ opResult.tag = "Err") =>
    /\ outcome.tag = "Error"
    /\ outcome.kind = opResult.kind
    /\ outcome.detail = opResult.val

C6_Witness ==
  /\ pc = "done"
  /\ opResult.tag = "Err"
  /\ opResult.kind = "NotFound"
  /\ outcome.tag = "Error"

\* C7: handling one request invokes at most one adapter operation, also
\* when the operation fails: no retry and no second operation.
C7_AtMostOneInvocation == Len(calls) <= 1

C7_Witness ==
  /\ pc = "done"
  /\ opResult.tag = "Err"
  /\ Len(calls) = 1

\* C13: an Action(name) request with an identifier fails with an Error of
\* kind ServerError, for every action name.
C13_ActionWithIdServerError ==
  (req.method.tag = "Action" /\ req.id # None /\ pc # "idle") =>
    /\ pc = "done"
    /\ outcome.tag = "Error"
    /\ outcome.kind = "ServerError"

C13_Witness ==
  /\ pc = "done"
  /\ req.method = Action("archive")
  /\ req.id = Some("7")
  /\ outcome.tag = "Error"
  /\ outcome.kind = "ServerError"

\* C14: for a routed request handle has no outcome while the operation is
\* unresolved; its outcome appears in the step in which the operation
\* resolves, is a Reply or an Error, and never changes afterwards.
C14_OutcomeOnlyAfterResolution ==
  /\ [](/\ outcome.tag \in {"None", "Reply", "Error"}
        /\ pc = "awaiting" => (outcome = NoOutcome /\ opResult = NoResult)
        /\ (calls # <<>> /\ outcome # NoOutcome) =>
             (pc = "done" /\ opResult # NoResult))
  /\ [][/\ (calls' # <<>> /\ outcome' # outcome) =>
             (pc = "awaiting" /\ opResult = NoResult /\ opResult' # NoResult)
        /\ outcome # NoOutcome => outcome' = outcome]_vars

C14_Witness ==
  /\ pc = "done"
  /\ calls # <<>>
  /\ opResult.tag = "Ok"
  /\ outcome.tag = "Reply"

---------------------------------------------------------------------------
(* Properties of the streaming bridge, checked under StreamSpec.           *)

IsPrefix(a, b) == Len(a) <= Len(b) /\ SubSeq(b, 1, Len(a)) = a

ChunksOf(items) == [i \in 1 .. Len(items) |-> items[i].chunk]

FromSender(items, s) == ChunksOf(SelectSeq(items, LAMBDA it : it.from = s))

\* No handle other than the one new_streamed returned has existed.
SingleSender == \A t \in Senders \ {1} : senders[t] = "unborn"

\* C8: with a single Sender, what the Body has yielded is always the start
\* of what was sent; the Body signals end-of-sequence only once the Sender
\* is dropped and every chunk sent has been yielded in send order; and once
\* the Sender is dropped each pull returns the next queued chunk, or
\* end-of-sequence when nothing is queued (at once when nothing was sent).
C8_SingleSenderDelivery ==
  /\ [](SingleSender =>
          /\ IsPrefix(ChunksOf(yielded), sent[1])
          /\ lastPoll = Ready(None) =>
               /\ senders[1] = "dropped"
               /\ ChunksOf(yielded) = sent[1])
  /\ [][(Poll /\ SingleSender /\ senders[1] = "dropped") =>
          IF queue = <<>>
            THEN lastPoll' = Ready(None) /\ yielded' = yielded
            ELSE /\ lastPoll' = Ready(Some(Head(queue)))
                 /\ yielded' = Append(yielded, Head(queue))]_vars

C8_Witness ==
  /\ SingleSender
  /\ senders[1] = "dropped"
  /\ lastPoll = Ready(None)
  /\ ChunksOf(yielded) = <<"A", "B", "A">>

\* C9: with several cloned Senders feeding one streamed Reply, the chunks
\* the Body has yielded that came from any one Sender are the start of that
\* Sender's chunks in its send order, under every interleaving.
C9_PerSenderFifo ==
  \A s \in Senders : IsPrefix(FromSender(yielded, s), sent[s])

C9_Witness ==
  /\ Len(yielded) = 3
  /\ yielded[1].from = 2
  /\ yielded[2].from = 1
  /\ yielded[3].from = 2
  /\ FromSender(yielded, 2) = <<"A", "B">>

\* C10: once the streamed Reply or its Body has been discarded, a send
\* reports no error, enqueues nothing, and nothing more is yielded.
C10_SendAfterDiscardIsNoOp ==
  [][closed =>
       /\ closed'
       /\ queue' = <<>>
       /\ yielded' = yielded
       /\ lastPoll' = lastPoll
       /\ lastSend' \in {lastSend, "ok"}]_vars

C10_Witness ==
  /\ closed
  /\ discarded # <<>>
  /\ lastSend = "ok"
  /\ queue = <<>>

\* C15: while the receiving end is alive no chunk is dropped or duplicated,
\* however many are buffered: what the Body has yielded followed by what is
\* queued holds each Sender's chunks exactly once and in its send order,
\* and a send always enqueues its chunk and reports no error.
C15_NoChunkLostWhileReceiverAlive ==
  /\ [](~closed =>
          /\ \A s \in Senders : FromSender(yielded \o queue, s) = sent[s]
          /\ Len(yielded) + Len(queue) = SentCount
          /\ discarded = <<>>
          /\ lastSend \in {"none", "ok"})
  /\ [][\A s \in Senders, c \in Chunks :
          (~closed /\ Send(s, c)) => queue' = Append(queue, Item(s, c))]_vars

C15_Witness ==
  /\ ~closed
  /\ body = BodyStream
  /\ yielded = <<>>
  /\ Len(queue) = MaxSent
  /\ queue[1].from = 2
  /\ lastSend = "ok"

\* C16: a pull of a Stream Body returns end-of-sequence exactly when the
\* queue is empty and no Sender (original or clone) is alive; with the
\* queue empty and a Sender alive it returns not-ready, also when another
\* Sender has already been dropped.
C16_EndOnlyWhenAllSendersGone ==
  /\ [](lastPoll = Ready(None) => (~AnyAlive(senders) /\ queue = <<>>))
  /\ [][Poll =>
          /\ lastPoll' = Ready(None) <=> (~AnyAlive(senders) /\ queue = <<>>)
          /\ (AnyAlive(senders) /\ queue = <<>>) => lastPoll' = NotReady]_vars

C16_Witness ==
  /\ body = BodyStream
  /\ senders[1] = "dropped"
  /\ senders[2] = "alive"
  /\ queue = <<>>
  /\ Len(yielded) = SentCount
  /\ yielded # <<>>
  /\ lastPoll = NotReady

\* C20: to_http moves the receiving end of the same queue into the Body:
\* the conversion leaves the queue as it is, so at that point every chunk
\* sent is still queued in send order, and when the Body signals
\* end-of-sequence every chunk sent has been yielded, whether it was sent
\* before the conversion or after it.
C20_ConversionKeepsQueuedChunks ==
  /\ [][(reply.tag = "Reply" /\ body' = BodyStream) =>
          /\ queue' = queue
          /\ closed' = closed
          /\ yielded' = <<>>
          /\ \A s \in Senders : FromSender(queue', s) = sent[s]]_vars
  /\ [](lastPoll = Ready(None) =>
          \A s \in Senders : FromSender(yielded, s) = sent[s])

C20_Witness ==
  /\ body = BodyStream
  /\ lastPoll = NoPoll
  /\ yielded = <<>>
  /\ senders[1] = "dropped"
  /\ SingleSender
  /\ ChunksOf(queue) = <<"B", "A">>

---------------------------------------------------------------------------
(* Termination of the stream, checked under FairStreamSpec.                *)

\* Every Sender handle that was created has been dropped.
AllDropped == senders[1] = "dropped" /\ ~AnyAlive(senders)

\* C18: with the Body being pulled, once every Sender is dropped the Body
\* eventually returns end-of-sequence having yielded every chunk sent
\* (unless the consumer discards the Body first); and while some Sender is
\* alive the Body has not returned end-of-sequence.
C18_EndsOnceAllSendersDropped ==
  /\ (AllDropped /\ body = BodyStream) ~>
       \/ /\ lastPoll = Ready(None)
          /\ \A s \in Senders : FromSender(yielded, s) = sent[s]
       \/ closed
  /\ [](AnyAlive(senders) => lastPoll # Ready(None))

C18_Witness ==
  /\ AllDropped
  /\ senders[2] = "dropped"
  /\ body = BodyStream
  /\ lastPoll = Ready(None)
  /\ Len(yielded) = MaxSent
  /\ sent[2] # <<>>

---------------------------------------------------------------------------
(* The queue reporting a failure, checked under FaultSpec.                 *)

\* C19: when the queue's poll reports a failure, Body::poll returns the
\* error value Incomplete: no chunk is yielded, the queue and the Body are
\* left as they are and no end-of-sequence is signalled; a pull on which the
\* queue reports no failure (a chunk, not-ready, a clean closure) never
\* returns this error.
C19_QueueFailureIsIncomplete ==
  /\ [](lastPoll.ok \/ lastPoll = PollErr("Incomplete"))
  /\ [][PollFault =>
          /\ lastPoll' = PollErr("Incomplete")
          /\ yielded' = yielded
          /\ queue' = queue
          /\ body' = BodyStream]_vars
  /\ [][Poll => lastPoll'.ok]_vars

C19_Witness ==
  /\ lastPoll = PollErr("Incomplete")
  /\ body = BodyStream
  /\ queue # <<>>
  /\ yielded # <<>>

---------------------------------------------------------------------------
(* Properties of Value replies and of the Body, checked under ReplySpec.   *)

\* C11: the Body of a converted Value reply is one-shot: it holds one chunk,
\* the bytes of the serialized document; the first pull returns that chunk
\* ready, without suspending and without error, and the next pull returns
\* end-of-sequence.
C11_ValueBodyIsOneShot ==
  /\ [](body.tag = "Once" =>
          /\ lastPoll.ok
          /\ lastPoll.tag \in {"None", "Ready"}
          /\ body.opt # None => (yielded = <<>> /\ lastPoll = NoPoll)
          /\ body.opt = None =>
               /\ Len(yielded) = 1
               /\ lastPoll \in {Ready(Some(yielded[1])), Ready(None)})
  /\ [][(reply.tag = "Reply" /\ reply.data.tag = "Value" /\ body'.tag = "Once") =>
          body' = BodyOnce(Some(Item(0, Utf8(ToString(reply.data.val)))))]_vars
  /\ [][(body.tag = "Once" /\ PollOnce) =>
          IF body.opt # None
            THEN /\ lastPoll' = Ready(body.opt)
                 /\ yielded' = <<body.opt[1]>>
                 /\ body'.opt = None
            ELSE /\ lastPoll' = Ready(None)
                 /\ yielded' = yielded]_vars

C11_Witness ==
  /\ body = BodyOnce(None)
  /\ lastPoll = Ready(None)
  /\ yielded = <<Item(0, <<123, 34, 120, 34, 58, 49, 125>>)>>

\* C12: the content length to_http reports for a Value reply is the number
\* of bytes of the serialized document, which is the length of the one
\* chunk the Body holds and yields.
C12_ContentLengthIsByteLength ==
  /\ [](body.tag = "Once" =>
          /\ headers.contentLength # None
          /\ body.opt # None =>
               headers.contentLength = Some(Len(body.opt[1].chunk))
          /\ yielded # <<>> =>
               headers.contentLength = Some(Len(yielded[1].chunk)))
  /\ [][(reply.tag = "Reply" /\ reply.data.tag = "Value" /\ body'.tag = "Once") =>
          headers'.contentLength = Some(Len(Utf8(ToString(reply.data.val))))]_vars

C12_Witness ==
  /\ body.tag = "Once"
  /\ headers.contentLength = Some(9)
  /\ yielded = <<Item(0, <<123, 34, 195, 169, 34, 58, 49, 50, 125>>)>>

\* C17: a Body is not restartable: a Body::Once yields at most one chunk,
\* and once a pull of either kind of Body has returned end-of-sequence
\* every later pull returns end-of-sequence and yields nothing.
C17_BodyNotRestartable ==
  /\ [](body.tag = "Once" => Len(yielded) <= 1)
  /\ [][lastPoll = Ready(None) =>
          (lastPoll' = Ready(None) /\ yielded' = yielded)]_vars

C17_Witness ==
  /\ body = BodyOnce(None)
  /\ lastPoll = Ready(None)
  /\ yielded = <<Item(0, <<123, 125>>)>>
  /\ ENABLED PollOnce

===========================================================================
